---- MODULE Spec2Model ----
(***************************************************************************)
(* A model of products-processor: the streaming XML reader and writer of   *)
(* serialization.py, the Product dataclass of product.py and the async     *)
(* pipeline and operations of pipeline.py.                                 *)
(*                                                                         *)
(* Python values are records [t, s]: t is the Python type, s the repr of   *)
(* the value (str(v) for int and float, the text itself for str).          *)
(***************************************************************************)
EXTENDS Integers, Sequences, FiniteSets, TLC

(***************************************************************************)
(* Bounds of the model.                                                    *)
(***************************************************************************)
\* <product> elements a document holds at most
MaxDoc == 3
\* children of the root of another tag the parser builds before a <product>
MaxOther == 1
\* records handed to save_products at most
MaxWrite == 2
\* records the upstream of AsyncPipeline.run holds at most
MaxItems == 2
\* steps added to an AsyncPipeline at most
MaxSteps == 2
\* calls of CollectManufacturers / of Product.add_attribute at most
MaxCalls == 3

(***************************************************************************)
(* Python values.                                                          *)
(***************************************************************************)
None == [t |-> "None", s |-> "None"]
PyStr(s) == [t |-> "str", s |-> s]
PyInt(s) == [t |-> "int", s |-> s]
PyFloat(s) == [t |-> "float", s |-> s]

\* a == b of Python on two distinct objects: a float NaN equals nothing
PyEq(a, b) == a = b /\ ~(a.t = "float" /\ a.s = "nan")

\* int(text): the canonical repr of the parsed integer, or "ValueError"
int(text) ==
    CASE text = "7" -> "7"
      [] text = "07" -> "7"
      [] text = "12" -> "12"
      [] OTHER -> "ValueError"

\* float(text): the repr of the parsed float, or "ValueError"
float(text) ==
    CASE text = "7" -> "7.0"
      [] text = "07" -> "7.0"
      [] text = "7.0" -> "7.0"
      [] text = "12" -> "12.0"
      [] text = "12.0" -> "12.0"
      [] text = "1.5" -> "1.5"
      [] text = "1.50" -> "1.5"
      [] text = "nan" -> "nan"
      [] OTHER -> "ValueError"

(***************************************************************************)
(* product.py: the dataclasses.                                            *)
(***************************************************************************)
\* Product's fields without a default, in declaration order
RequiredFields ==
    <<"product_id", "name", "quantity", "ean", "sku", "category_name",
      "price", "tax_rate", "weight", "width", "height", "length">>

\* Product's scalar fields with a default of ""
EmptyDefaultFields ==
    {"description", "manufacturer_name", "purchase_price", "image",
     "image_extra_1", "image_extra_2", "image_extra_3", "image_extra_4",
     "image_extra_5", "image_extra_6", "image_extra_7", "image_extra_8",
     "image_extra_9", "image_extra_10", "image_extra_11", "image_extra_12",
     "image_extra_13", "image_extra_14", "image_extra_15", "variants"}

\* Product's scalar fields with a default of None
NoneDefaultFields == {"description_extra_1", "description_extra_2"}

Range(s) == {s[i] : i \in DOMAIN s}

\* The record types a reader or writer is built for: the two dataclasses of
\* product.py, and a subclass of Product a caller declares with an `images`
\* list field (product_cls is any Type[T], T bound to Product).
ProductClasses == {"Product", "ProductWithName", "ProductWithImages"}

\* the scalar fields of a class (every dataclass field but attributes, images)
ScalarFields(cls) ==
    Range(RequiredFields) \cup EmptyDefaultFields \cup NoneDefaultFields
        \cup (IF cls = "ProductWithName" THEN {"man_name"} ELSE {})

HasImages(cls) == cls = "ProductWithImages"

\* the keyword arguments the generated __init__ of a class accepts
InitParams(cls) ==
    ScalarFields(cls) \cup {"attributes"}
        \cup (IF HasImages(cls) THEN {"images"} ELSE {})

DefaultOf(field) ==
    IF field \in EmptyDefaultFields THEN PyStr("") ELSE None

NoRecord == [cls |-> "", f |-> <<>>, images |-> <<>>, attributes |-> <<>>]

\* product_cls(**kwargs): kw is the scalar keyword arguments (a function from
\* names to values), passed is every keyword name passed. TypeError on a
\* keyword the class does not declare or a missing field without a default.
Construct(cls, kw, passed, images, attributes) ==
    IF \/ ~(passed \subseteq InitParams(cls))
       \/ ~(Range(RequiredFields) \subseteq passed)
    THEN [ok |-> FALSE, exc |-> "TypeError", rec |-> NoRecord]
    ELSE [ok |-> TRUE, exc |-> "",
          rec |-> [cls |-> cls,
                   f |-> [x \in ScalarFields(cls) |->
                            IF x \in DOMAIN kw THEN kw[x] ELSE DefaultOf(x)],
                   images |-> images,
                   attributes |-> attributes]]

\* dataclass __eq__ of two distinct instances: same class, equal field by field
RecordEq(r1, r2) ==
    /\ r1.cls = r2.cls
    /\ DOMAIN r1.f = DOMAIN r2.f
    /\ \A x \in DOMAIN r1.f : PyEq(r1.f[x], r2.f[x])
    /\ r1.images = r2.images
    /\ r1.attributes = r2.attributes

(***************************************************************************)
(* lxml elements.  A child of <product> is absent, present without text,   *)
(* or present with text.                                                   *)
(***************************************************************************)
Absent == [k |-> "absent", s |-> ""]
NoText == [k |-> "empty", s |-> ""]
Text(s) == [k |-> "text", s |-> s]

\* the field list of _element_to_product and _product_to_element
SimpleFields ==
    <<"product_id", "name", "quantity", "ean", "sku",
      "category_name", "manufacturer_name", "price",
      "tax_rate", "weight", "width", "height", "length",
      "description", "description_extra_1", "description_extra_2">>

IntFields == {"product_id", "quantity"}
FloatFields == {"price", "weight", "width", "height", "length"}

\* attr_elem.findtext(x) or ""
FindTextOrEmpty(c) == IF c.k = "text" THEN c.s ELSE ""

\* the coercion of one present child: [ok, v]
Coerce(field, text) ==
    IF field \in IntFields
    THEN [ok |-> int(text) # "ValueError", v |-> PyInt(int(text))]
    ELSE IF field \in FloatFields
    THEN [ok |-> float(text) # "ValueError", v |-> PyFloat(float(text))]
    ELSE [ok |-> TRUE, v |-> PyStr(text)]

\* the simple fields whose child is present with text
PresentFields(e) == {x \in Range(SimpleFields) : e.ch[x].k = "text"}

\* images_elem.findall("image"), keeping the entries whose text is truthy
RECURSIVE ReadImages(_)
ReadImages(items) ==
    IF items = <<>> THEN <<>>
    ELSE (IF Head(items).k = "text" /\ Head(items).s # ""
          THEN <<Head(items).s>> ELSE <<>>) \o ReadImages(Tail(items))

\* attrs_elem.findall("attribute"): one Attribute per entry
ReadAttributes(items) ==
    [i \in DOMAIN items |->
        [name |-> FindTextOrEmpty(items[i].name),
         value |-> FindTextOrEmpty(items[i].value)]]

\* ProductXMLReader._element_to_product
element_to_product(cls, e) ==
    IF \E x \in PresentFields(e) : ~Coerce(x, e.ch[x].s).ok
    THEN [ok |-> FALSE, exc |-> "ValueError", rec |-> NoRecord]
    ELSE Construct(cls,
                   [x \in PresentFields(e) |-> Coerce(x, e.ch[x].s).v],
                   PresentFields(e) \cup {"images", "attributes"},
                   IF e.images.present THEN ReadImages(e.images.items) ELSE <<>>,
                   IF e.attrs.present THEN ReadAttributes(e.attrs.items) ELSE <<>>)

(***************************************************************************)
(* The <product> elements a document may hold: a complete element, and     *)
(* every element that differs from it in one child.                        *)
(***************************************************************************)
BaseChild(field) ==
    IF field \in IntFields THEN Text("7")
    ELSE IF field \in FloatFields THEN Text("1.5")
    ELSE IF field \in {"description_extra_1", "description_extra_2"} THEN Absent
    ELSE IF field = "manufacturer_name" THEN Text("Lego")
    ELSE Text("x")

BaseElem ==
    [ch |-> [x \in Range(SimpleFields) |-> BaseChild(x)],
     images |-> [present |-> FALSE, items |-> <<>>],
     attrs |-> [present |-> FALSE, items |-> <<>>]]

\* the other forms of a child: missing, without text, other texts
OtherChildren(field) ==
    IF field \in IntFields
    THEN {Absent, NoText, Text("07"), Text("abc")}
    ELSE IF field \in FloatFields
    THEN {Absent, NoText, Text("12"), Text("nan"), Text("abc")}
    ELSE IF field = "manufacturer_name"
    THEN {Absent, NoText, Text("Cobi")}
    ELSE {Absent, NoText, Text("x"), Text("a&amp;b"), Text("a]]>b")}

ImageLists ==
    { <<>>, <<Text("i1")>>, <<Text("i2"), NoText, Text("i1")>> }

AttributeLists ==
    { <<>>,
      <<[name |-> Text("K"), value |-> Text("a")]>>,
      <<[name |-> Text("K"), value |-> Text("a")],
        [name |-> Text("K"), value |-> Text("b")]>>,
      <<[name |-> Absent, value |-> Text("a")]>>,
      <<[name |-> Text("K"), value |-> Absent]>>,
      <<[name |-> Text("M"), value |-> Text("b")],
        [name |-> NoText, value |-> NoText],
        [name |-> Text("K"), value |-> Text("a")]>> }

Elements ==
    {BaseElem}
    \cup UNION {{[BaseElem EXCEPT !.ch[x] = c] : c \in OtherChildren(x)} :
                   x \in Range(SimpleFields)}
    \cup {[BaseElem EXCEPT !.images = [present |-> TRUE, items |-> l]] :
             l \in ImageLists}
    \cup {[BaseElem EXCEPT !.attrs = [present |-> TRUE, items |-> l]] :
             l \in AttributeLists}

\* the elements of the documents stream_products is run on: complete ones,
\* ones a coercion fails on, one without a child of a field with no default
StreamElements ==
    { BaseElem,
      [BaseElem EXCEPT !.ch["manufacturer_name"] = Text("Cobi"),
                       !.images = [present |-> TRUE, items |-> <<Text("i1")>>]],
      [BaseElem EXCEPT !.ch["description"] = Absent],
      [BaseElem EXCEPT !.ch["product_id"] = Text("abc")],
      [BaseElem EXCEPT !.ch["price"] = Text("abc")],
      [BaseElem EXCEPT !.ch["name"] = Absent] }

(***************************************************************************)
(* lxml, writing: what _product_to_element builds and what tostring        *)
(* followed by iterparse makes of it.                                      *)
(***************************************************************************)
CData(s) == [k |-> "cdata", s |-> s]

\* etree.CDATA(value) raises ValueError when value holds "]]>"
CDataRaises(s) == s = "a]]>b"

NoElem ==
    [ch |-> [x \in Range(SimpleFields) |-> Absent],
     images |-> [present |-> FALSE, items |-> <<>>],
     attrs |-> [present |-> FALSE, items |-> <<>>]]

\* the child _product_to_element adds for one simple field
FieldChild(field, value) ==
    IF value = None THEN Absent
    ELSE IF field \in {"description", "description_extra_1",
                       "description_extra_2"} /\ value.t = "str"
    THEN CData(value.s)
    ELSE Text(value.s)

\* ProductXMLWriter._product_to_element
product_to_element(product) ==
    IF \E x \in Range(SimpleFields) :
          /\ FieldChild(x, product.f[x]).k = "cdata"
          /\ CDataRaises(product.f[x].s)
    THEN [ok |-> FALSE, exc |-> "ValueError", elem |-> NoElem]
    ELSE IF ~HasImages(product.cls)
    THEN [ok |-> FALSE, exc |-> "AttributeError", elem |-> NoElem]
    ELSE [ok |-> TRUE, exc |-> "",
          elem |->
            [ch |-> [x \in Range(SimpleFields) |-> FieldChild(x, product.f[x])],
             images |->
               [present |-> product.images # <<>>,
                items |-> [i \in DOMAIN product.images |->
                             Text(product.images[i])]],
             attrs |->
               [present |-> product.attributes # <<>>,
                items |-> [i \in DOMAIN product.attributes |->
                             [name |-> Text(product.attributes[i].name),
                              value |-> Text(product.attributes[i].value)]]]]]

\* a node after etree.tostring and a parse of the bytes: a CDATA section is
\* read as text, an element whose text is empty has no text
ParsedChild(c) ==
    IF c.k = "absent" THEN Absent
    ELSE IF c.s = "" THEN NoText
    ELSE Text(c.s)

\* the <product> element iterparse builds from the bytes tostring wrote
Reparse(e) ==
    [ch |-> [x \in Range(SimpleFields) |-> ParsedChild(e.ch[x])],
     images |-> [present |-> e.images.present,
                 items |-> [i \in DOMAIN e.images.items |->
                              ParsedChild(e.images.items[i])]],
     attrs |-> [present |-> e.attrs.present,
                items |-> [i \in DOMAIN e.attrs.items |->
                             [name |-> ParsedChild(e.attrs.items[i].name),
                              value |-> ParsedChild(e.attrs.items[i].value)]]]]

(***************************************************************************)
(* product.py: Product.add_attribute on the attribute list.                *)
(***************************************************************************)
add_attribute(attributes, name, value) ==
    IF \E i \in DOMAIN attributes : attributes[i].name = name
    THEN LET first == CHOOSE i \in DOMAIN attributes :
                        /\ attributes[i].name = name
                        /\ \A j \in 1..(i - 1) : attributes[j].name # name
         IN [attributes EXCEPT ![first].value = value]
    ELSE Append(attributes, [name |-> name, value |-> value])

(***************************************************************************)
(* pipeline.py: the operations.                                            *)
(***************************************************************************)
\* text.replace("&amp;nbsp;", " ").replace("&amp;amp;", "&")
\*     .replace("&amp;", "&")
replace_amps(text) ==
    CASE text = "a&amp;b" -> "a&b"
      [] text = "a&amp;amp;b" -> "a&b"
      [] text = "a&amp;nbsp;b" -> "a b"
      [] OTHER -> text

\* FixAmpersands._fix_amps: "" for None and for the empty string
fix_amps(value) ==
    IF value = None \/ value.s = "" THEN PyStr("")
    ELSE PyStr(replace_amps(value.s))

FixAmpersands(p) ==
    [p EXCEPT !.f["description"] = fix_amps(@),
              !.f["description_extra_1"] = fix_amps(@),
              !.f["description_extra_2"] = fix_amps(@),
              !.f["name"] = fix_amps(@)]

\* p.man_name and p.man_name.strip()
Truthy(value) == value # None /\ value.s \notin {"", "  "}

CopyNameToAttrs(p) ==
    IF p.cls = "ProductWithName" /\ Truthy(p.f["man_name"])
    THEN [p EXCEPT !.attributes = add_attribute(@, "Nazwa", p.f["man_name"].s)]
    ELSE [p EXCEPT !.attributes = add_attribute(@, "Nazwa", p.f["name"].s)]

\* the group(1) of the first of the three searches of FindPiecesCount that
\* matches the name: (\d+)\s+elementów, (\d+)\s+elem, (\d+)\s+el\. ;
\* "" when none matches
pieces_count(name) ==
    CASE name = "Set 120 elem" -> "120"
      [] name = "Set 7 el." -> "7"
      [] OTHER -> ""

FindPiecesCount(p) ==
    IF pieces_count(p.f["name"].s) # ""
    THEN [p EXCEPT !.attributes =
            add_attribute(@, "Calkowita liczba elementow",
                          pieces_count(p.f["name"].s))]
    ELSE p

\* CollectManufacturers.__call__ on the dict self.manufacturers resolves to
CountManufacturer(m, p) ==
    LET key == p.f["manufacturer_name"].s IN
    IF key \in DOMAIN m
    THEN [m EXCEPT ![key] = @ + 1]
    ELSE [x \in DOMAIN m \cup {key} |-> IF x = key THEN 1 ELSE m[x]]

\* the steps a pipeline is built from
Operations ==
    {"FixAmpersands", "CopyNameToAttrs", "FindPiecesCount",
     "CollectManufacturers"}

\* the record await step(p) returns
ApplyOperation(step, p) ==
    CASE step = "FixAmpersands" -> FixAmpersands(p)
      [] step = "CopyNameToAttrs" -> CopyNameToAttrs(p)
      [] step = "FindPiecesCount" -> FindPiecesCount(p)
      [] step = "CollectManufacturers" -> p

(***************************************************************************)
(* Records built with the dataclass constructors, for the writer, the      *)
(* pipeline and the operations.                                            *)
(***************************************************************************)
BaseKw ==
    [x \in Range(RequiredFields) |->
        IF x \in IntFields THEN PyInt("7")
        ELSE IF x \in FloatFields THEN PyFloat("1.5")
        ELSE PyStr("x")]

\* cls(<the required fields>, name=..., manufacturer_name=..., description=...)
MakeProduct(cls, name, manufacturer, description, attributes) ==
    LET kw == [x \in DOMAIN BaseKw \cup {"manufacturer_name", "description"} |->
                 IF x = "name" THEN PyStr(name)
                 ELSE IF x = "manufacturer_name" THEN PyStr(manufacturer)
                 ELSE IF x = "description" THEN PyStr(description)
                 ELSE BaseKw[x]]
    IN Construct(cls, kw,
                 DOMAIN kw \cup {"attributes"}
                     \cup (IF HasImages(cls) THEN {"images"} ELSE {}),
                 <<>>, attributes).rec

SampleRecords ==
    { MakeProduct("Product", "x", "Lego", "", <<>>),
      MakeProduct("Product", "a&amp;b", "Cobi", "a&amp;amp;b", <<>>),
      [MakeProduct("ProductWithName", "a&amp;b", "Lego", "", <<>>)
          EXCEPT !.f["man_name"] = PyStr("N")],
      [MakeProduct("ProductWithName", "x", "", "", <<>>)
          EXCEPT !.f["man_name"] = PyStr("  ")],
      MakeProduct("ProductWithImages", "a&amp;b", "Cobi", "x",
                  <<[name |-> "Nazwa", value |-> "old"]>>),
      MakeProduct("ProductWithImages", "x", "Lego", "a]]>b", <<>>),
      MakeProduct("ProductWithImages", "Set 120 elem", "Lego", "", <<>>) }

(***************************************************************************)
(* State.                                                                  *)
(***************************************************************************)
VARIABLES
    \* ProductXMLReader.stream_products
    product_cls,    \* self.product_cls
    doc,            \* the <product> elements the parser has built so far
    tree,           \* the children of the root the tree holds: [id, cleared]
    pc,             \* the generator's position
    out,            \* the records yielded
    errors,         \* "Error while parsing <product>" lines printed
    failures,       \* "Failed to parse XML" lines printed
    outcome,        \* what the caller's iteration ended with
    \* one element through _element_to_product, _product_to_element and back
    c_cls,          \* the record type
    c_elem,         \* the <product> element read
    c_pc,           \* the next conversion
    c_rec,          \* what _element_to_product made of c_elem
    c_written,      \* what _product_to_element made of c_rec
    c_back,         \* what _element_to_product made of the bytes written
    \* ProductXMLWriter.save_products
    w_pc,           \* the writer's position
    w_in,           \* the records pulled from `products` so far
    w_file,         \* the chunks written to the file, in order
    w_outcome,      \* how save_products ended
    \* Product.add_attribute
    attributes,     \* self.attributes
    a_calls,        \* the calls made: [name, value]
    a_before,       \* self.attributes before each call
    \* AsyncPipeline
    steps,          \* self.steps
    p_pc,           \* the position of run
    p_items,        \* the records pulled from `items` so far
    p,              \* the record in the step loop
    p_step,         \* the index of the step awaited or awaited next
    p_out,          \* the records yielded
    p_log,          \* pulls, step starts, step ends and yields, in order
    \* CollectManufacturers
    manufacturers,  \* the class attribute CollectManufacturers.manufacturers
    applied,        \* per instance, the manufacturer names it was called with
    m_returned      \* whether every call returned its argument

rvars == <<product_cls, doc, tree, pc, out, errors, failures, outcome>>
cvars == <<c_cls, c_elem, c_pc, c_rec, c_written, c_back>>
wvars == <<w_pc, w_in, w_file, w_outcome>>
avars == <<attributes, a_calls, a_before>>
pvars == <<steps, p_pc, p_items, p, p_step, p_out, p_log>>
mvars == <<manufacturers, applied, m_returned>>

vars == <<rvars, cvars, wvars, avars, pvars, mvars>>

\* the two CollectManufacturers instances of the model
Instances == {1, 2}

EmptyDict == [x \in {} |-> 0]

ReaderIdle ==
    /\ product_cls = "Product"
    /\ doc = <<>>
    /\ tree = <<>>
    /\ pc = "idle"
    /\ out = <<>>
    /\ errors = 0
    /\ failures = 0
    /\ outcome = "running"

CodecIdle ==
    /\ c_cls = "Product"
    /\ c_elem = NoElem
    /\ c_pc = "idle"
    /\ c_rec = [ok |-> FALSE, exc |-> "", rec |-> NoRecord]
    /\ c_written = [ok |-> FALSE, exc |-> "", elem |-> NoElem]
    /\ c_back = [ok |-> FALSE, exc |-> "", rec |-> NoRecord]

WriterIdle ==
    /\ w_pc = "idle"
    /\ w_in = <<>>
    /\ w_file = <<>>
    /\ w_outcome = "running"

AttributesIdle ==
    /\ attributes = <<>>
    /\ a_calls = <<>>
    /\ a_before = <<>>

PipelineIdle ==
    /\ steps = <<>>
    /\ p_pc = "idle"
    /\ p_items = <<>>
    /\ p = NoRecord
    /\ p_step = 0
    /\ p_out = <<>>
    /\ p_log = <<>>

CollectInit ==
    /\ manufacturers = EmptyDict
    /\ applied = [i \in Instances |-> <<>>]
    /\ m_returned = TRUE

(***************************************************************************)
(* ProductXMLReader.stream_products                                        *)
(***************************************************************************)
ReaderInit ==
    /\ product_cls \in ProductClasses
    /\ doc = <<>>
    /\ tree = <<>>
    /\ pc = "next"
    /\ out = <<>>
    /\ errors = 0
    /\ failures = 0
    /\ outcome = "running"
    /\ CodecIdle /\ WriterIdle /\ AttributesIdle /\ PipelineIdle /\ CollectInit

\* a child of the root that is no <product>: it raises no event
OtherNode == [id |-> 0, cleared |-> FALSE]

\* del elem.getparent()[0] while elem, at position pos, has a previous sibling
RECURSIVE DeletePrevious(_, _)
DeletePrevious(t, pos) ==
    IF pos = 1 THEN t ELSE DeletePrevious(Tail(t), pos - 1)

\* a finally block that clears elem and leaves its previous siblings
FinallyBlock_KeepSiblings(t) ==
    [t EXCEPT ![Len(t)].cleared = TRUE]

\* the finally block: elem.clear(), then the siblings before elem are
\* deleted. elem is the last child the parser built.
FinallyBlock(t) ==
    DeletePrevious([t EXCEPT ![Len(t)].cleared = TRUE], Len(t))

\* for _, elem in context: the parser builds the next <product> (after k
\* siblings of another tag) and raises its end event
NextElement ==
    /\ pc = "next"
    /\ Len(doc) < MaxDoc
    /\ \E e \in StreamElements, k \in 0..MaxOther :
         /\ doc' = Append(doc, e)
         /\ tree' = tree \o [i \in 1..k |-> OtherNode]
                         \o << [id |-> Len(doc) + 1, cleared |-> FALSE] >>
    /\ pc' = "convert"
    /\ UNCHANGED <<product_cls, out, errors, failures, outcome>>
    /\ UNCHANGED <<cvars, wvars, avars, pvars, mvars>>

\* the events are exhausted (after k more siblings of another tag): the
\* generator returns
EndOfDocument ==
    /\ pc = "next"
    /\ \E k \in 0..MaxOther : tree' = tree \o [i \in 1..k |-> OtherNode]
    /\ pc' = "done"
    /\ outcome' = "StopIteration"
    /\ UNCHANGED <<product_cls, doc, out, errors, failures>>
    /\ UNCHANGED <<cvars, wvars, avars, pvars, mvars>>

\* what the caller's iteration ends with after the outer except clause:
\* the exception is printed and not raised again, so the generator returns
AfterStreamError == "StopIteration"

\* the parser raises (XMLSyntaxError, OSError), after k more siblings of
\* another tag: the outer except clause
StreamError ==
    /\ pc = "next"
    /\ \E k \in 0..MaxOther : tree' = tree \o [i \in 1..k |-> OtherNode]
    /\ failures' = failures + 1
    /\ pc' = "done"
    /\ outcome' = AfterStreamError
    /\ UNCHANGED <<product_cls, doc, out, errors>>
    /\ UNCHANGED <<cvars, wvars, avars, pvars, mvars>>

\* product = self._element_to_product(elem); yield product
ConvertYield ==
    /\ pc = "convert"
    /\ LET r == element_to_product(product_cls, doc[Len(doc)]) IN
         /\ r.ok
         /\ out' = Append(out, r.rec)
    /\ pc' = "yield"
    /\ UNCHANGED <<product_cls, doc, tree, errors, failures, outcome>>
    /\ UNCHANGED <<cvars, wvars, avars, pvars, mvars>>

\* _element_to_product raises: except Exception prints, then finally
ConvertRaise ==
    /\ pc = "convert"
    /\ ~element_to_product(product_cls, doc[Len(doc)]).ok
    /\ errors' = errors + 1
    /\ tree' = FinallyBlock(tree)
    /\ pc' = "next"
    /\ UNCHANGED <<product_cls, doc, out, failures, outcome>>
    /\ UNCHANGED <<cvars, wvars, avars, pvars, mvars>>

\* the caller asks for the next record: the generator resumes after the
\* yield and runs finally
Resume ==
    /\ pc = "yield"
    /\ tree' = FinallyBlock(tree)
    /\ pc' = "next"
    /\ UNCHANGED <<product_cls, doc, out, errors, failures, outcome>>
    /\ UNCHANGED <<cvars, wvars, avars, pvars, mvars>>

ReaderNext ==
    \/ NextElement
    \/ EndOfDocument
    \/ StreamError
    \/ ConvertYield
    \/ ConvertRaise
    \/ Resume

SpecReader == ReaderInit /\ [][ReaderNext]_vars

(***************************************************************************)
(* One element through the reader's and the writer's conversions: read,    *)
(* written with save_products, read back with stream_products.             *)
(***************************************************************************)
CodecInit ==
    /\ c_cls \in ProductClasses
    /\ c_elem \in Elements
    /\ c_pc = "read"
    /\ c_rec = [ok |-> FALSE, exc |-> "", rec |-> NoRecord]
    /\ c_written = [ok |-> FALSE, exc |-> "", elem |-> NoElem]
    /\ c_back = [ok |-> FALSE, exc |-> "", rec |-> NoRecord]
    /\ ReaderIdle /\ WriterIdle /\ AttributesIdle /\ PipelineIdle /\ CollectInit

\* stream_products on the document: _element_to_product(elem)
Read ==
    /\ c_pc = "read"
    /\ c_rec' = element_to_product(c_cls, c_elem)
    /\ c_pc' = IF c_rec'.ok THEN "write" ELSE "done"
    /\ UNCHANGED <<c_cls, c_elem, c_written, c_back>>
    /\ UNCHANGED <<rvars, wvars, avars, pvars, mvars>>

\* save_products on the record yielded: _product_to_element(product)
Write ==
    /\ c_pc = "write"
    /\ c_written' = product_to_element(c_rec.rec)
    /\ c_pc' = IF c_written'.ok THEN "readback" ELSE "done"
    /\ UNCHANGED <<c_cls, c_elem, c_rec, c_back>>
    /\ UNCHANGED <<rvars, wvars, avars, pvars, mvars>>

\* stream_products on the file written
ReadBack ==
    /\ c_pc = "readback"
    /\ c_back' = element_to_product(c_cls, Reparse(c_written.elem))
    /\ c_pc' = "done"
    /\ UNCHANGED <<c_cls, c_elem, c_rec, c_written>>
    /\ UNCHANGED <<rvars, wvars, avars, pvars, mvars>>

CodecNext ==
    \/ Read
    \/ Write
    \/ ReadBack

SpecCodec == CodecInit /\ [][CodecNext]_vars

(***************************************************************************)
(* ProductXMLWriter.save_products                                          *)
(***************************************************************************)
WriterInit ==
    /\ w_pc = "open"
    /\ w_in = <<>>
    /\ w_file = <<>>
    /\ w_outcome = "running"
    /\ ReaderIdle /\ CodecIdle /\ AttributesIdle /\ PipelineIdle /\ CollectInit

Chunk(kind, elem) == [kind |-> kind, elem |-> elem]

\* the records save_products is handed: built by a caller, or yielded by
\* stream_products
WriterRecords ==
    SampleRecords
    \cup {element_to_product(cls, e).rec :
             cls \in {c \in ProductClasses : HasImages(c)},
             e \in {x \in Elements : element_to_product("ProductWithImages", x).ok}}

\* open(...), the declaration line and <products>
WriteHeader ==
    /\ w_pc = "open"
    /\ w_file' = <<Chunk("declaration", NoElem), Chunk("root open", NoElem)>>
    /\ w_pc' = "pull"
    /\ UNCHANGED <<w_in, w_outcome>>
    /\ UNCHANGED <<rvars, cvars, avars, pvars, mvars>>

\* for product in products: the next record is pulled
PullProduct ==
    /\ w_pc = "pull"
    /\ Len(w_in) < MaxWrite
    /\ \E r \in WriterRecords : w_in' = Append(w_in, r)
    /\ w_pc' = "write"
    /\ UNCHANGED <<w_file, w_outcome>>
    /\ UNCHANGED <<rvars, cvars, avars, pvars, mvars>>

\* the loop body: the record is serialized and written
WriteProduct ==
    /\ w_pc = "write"
    /\ LET e == product_to_element(w_in[Len(w_in)]) IN
         /\ e.ok
         /\ w_file' = Append(w_file, Chunk("product", e.elem))
    /\ w_pc' = "pull"
    /\ UNCHANGED <<w_in, w_outcome>>
    /\ UNCHANGED <<rvars, cvars, avars, pvars, mvars>>

\* _product_to_element raises: the with block closes the file, the
\* exception leaves save_products
WriteRaise ==
    /\ w_pc = "write"
    /\ ~product_to_element(w_in[Len(w_in)]).ok
    /\ w_pc' = "done"
    /\ w_outcome' = "raised"
    /\ UNCHANGED <<w_in, w_file>>
    /\ UNCHANGED <<rvars, cvars, avars, pvars, mvars>>

\* products is exhausted: </products>
WriteFooter ==
    /\ w_pc = "pull"
    /\ w_file' = Append(w_file, Chunk("root close", NoElem))
    /\ w_pc' = "done"
    /\ w_outcome' = "returned"
    /\ UNCHANGED <<w_in>>
    /\ UNCHANGED <<rvars, cvars, avars, pvars, mvars>>

WriterNext ==
    \/ WriteHeader
    \/ PullProduct
    \/ WriteProduct
    \/ WriteRaise
    \/ WriteFooter

SpecWriter == WriterInit /\ [][WriterNext]_vars

(***************************************************************************)
(* Product.add_attribute                                                   *)
(***************************************************************************)
\* the attribute lists a record starts with: those _element_to_product
\* builds from an <attributes> container
InitialAttributes == {ReadAttributes(l) : l \in AttributeLists}

AttributeNames == {"K", "M"}
AttributeValues == {"V1", "V2"}

AttributesInit ==
    /\ attributes \in InitialAttributes
    /\ a_calls = <<>>
    /\ a_before = <<>>
    /\ ReaderIdle /\ CodecIdle /\ WriterIdle /\ PipelineIdle /\ CollectInit

AddAttribute ==
    /\ Len(a_calls) < MaxCalls
    /\ \E name \in AttributeNames, value \in AttributeValues :
         /\ attributes' = add_attribute(attributes, name, value)
         /\ a_calls' = Append(a_calls, [name |-> name, value |-> value])
    /\ a_before' = Append(a_before, attributes)
    /\ UNCHANGED <<rvars, cvars, wvars, pvars, mvars>>

AttributesNext == AddAttribute

SpecAttributes == AttributesInit /\ [][AttributesNext]_vars

(***************************************************************************)
(* AsyncPipeline: add and run                                              *)
(***************************************************************************)
PipelineInit ==
    /\ steps = <<>>
    /\ p_pc = "build"
    /\ p_items = <<>>
    /\ p = NoRecord
    /\ p_step = 0
    /\ p_out = <<>>
    /\ p_log = <<>>
    /\ ReaderIdle /\ CodecIdle /\ WriterIdle /\ AttributesIdle /\ CollectInit

Event(kind, item, step) == [kind |-> kind, item |-> item, step |-> step]

\* a loop that walks self.steps from its end
StepAt_Reversed(ss, i) == ss[Len(ss) + 1 - i]

\* for step in self.steps: the step taken at the i-th turn of the loop
StepAt(ss, i) == ss[i]

\* AsyncPipeline.add
Add ==
    /\ p_pc = "build"
    /\ Len(steps) < MaxSteps
    /\ \E step \in Operations : steps' = Append(steps, step)
    /\ UNCHANGED <<p_pc, p_items, p, p_step, p_out, p_log>>
    /\ UNCHANGED <<rvars, cvars, wvars, avars, mvars>>

\* run(items) is called and its first record asked for
Run ==
    /\ p_pc = "build"
    /\ p_pc' = "pull"
    /\ UNCHANGED <<steps, p_items, p, p_step, p_out, p_log>>
    /\ UNCHANGED <<rvars, cvars, wvars, avars, mvars>>

\* async for p in items: upstream hands over its next record
Pull ==
    /\ p_pc = "pull"
    /\ Len(p_items) < MaxItems
    /\ \E item \in SampleRecords :
         /\ p_items' = Append(p_items, item)
         /\ p' = item
    /\ p_step' = 1
    /\ p_pc' = "steps"
    /\ p_log' = Append(p_log, Event("pull", Len(p_items) + 1, 0))
    /\ UNCHANGED <<steps, p_out>>
    /\ UNCHANGED <<rvars, cvars, wvars, avars, mvars>>

\* upstream is exhausted: run ends
Exhausted ==
    /\ p_pc = "pull"
    /\ p_pc' = "done"
    /\ UNCHANGED <<steps, p_items, p, p_step, p_out, p_log>>
    /\ UNCHANGED <<rvars, cvars, wvars, avars, mvars>>

\* await step(p): the step is called and may suspend
StartStep ==
    /\ p_pc = "steps"
    /\ p_step <= Len(steps)
    /\ p_pc' = "await"
    /\ p_log' = Append(p_log, Event("start", Len(p_items), p_step))
    /\ UNCHANGED <<steps, p_items, p, p_step, p_out>>
    /\ UNCHANGED <<rvars, cvars, wvars, avars, mvars>>

\* p = await step(p): the step returns
FinishStep ==
    /\ p_pc = "await"
    /\ p' = ApplyOperation(StepAt(steps, p_step), p)
    /\ manufacturers' =
         IF StepAt(steps, p_step) = "CollectManufacturers"
         THEN CountManufacturer(manufacturers, p)
         ELSE manufacturers
    /\ p_step' = p_step + 1
    /\ p_pc' = "steps"
    /\ p_log' = Append(p_log, Event("finish", Len(p_items), p_step))
    /\ UNCHANGED <<steps, p_items, p_out>>
    /\ UNCHANGED <<rvars, cvars, wvars, avars, applied, m_returned>>

\* yield p, after the last step
Yield ==
    /\ p_pc = "steps"
    /\ p_step > Len(steps)
    /\ p_out' = Append(p_out, p)
    /\ p_pc' = "yielded"
    /\ p_log' = Append(p_log, Event("yield", Len(p_items), 0))
    /\ UNCHANGED <<steps, p_items, p, p_step>>
    /\ UNCHANGED <<rvars, cvars, wvars, avars, mvars>>

\* the consumer asks for the next record: run resumes after the yield
ResumeRun ==
    /\ p_pc = "yielded"
    /\ p_pc' = "pull"
    /\ UNCHANGED <<steps, p_items, p, p_step, p_out, p_log>>
    /\ UNCHANGED <<rvars, cvars, wvars, avars, mvars>>

PipelineNext ==
    \/ Add
    \/ Run
    \/ Pull
    \/ Exhausted
    \/ StartStep
    \/ FinishStep
    \/ Yield
    \/ ResumeRun

SpecPipeline == PipelineInit /\ [][PipelineNext]_vars

(***************************************************************************)
(* CollectManufacturers: calls on two instances, and get_stats             *)
(***************************************************************************)
CollectorInit ==
    /\ CollectInit
    /\ ReaderIdle /\ CodecIdle /\ WriterIdle /\ AttributesIdle /\ PipelineIdle

\* self.manufacturers of an instance: no instance ever binds the name, so
\* the lookup ends at the class attribute
SelfManufacturers(inst) == manufacturers

\* CollectManufacturers.get_stats
get_stats(inst) == SelfManufacturers(inst)

\* the names in a sequence of calls, each with the number of its calls
Tally(names) ==
    [x \in Range(names) |-> Cardinality({i \in DOMAIN names : names[i] = x})]

\* await inst(record)
Collect ==
    /\ \E inst \in Instances, record \in SampleRecords :
         /\ Len(applied[1]) + Len(applied[2]) < MaxCalls
         /\ manufacturers' = CountManufacturer(SelfManufacturers(inst), record)
         /\ applied' = [applied EXCEPT
                          ![inst] = Append(@, record.f["manufacturer_name"].s)]
         /\ m_returned' =
              (m_returned
                 /\ ApplyOperation("CollectManufacturers", record) = record)
    /\ UNCHANGED <<rvars, cvars, wvars, avars, pvars>>

CollectorNext == Collect

SpecCollector == CollectorInit /\ [][CollectorNext]_vars

(***************************************************************************)
(* The properties.                                                         *)
(***************************************************************************)
IsPrefix(a, b) == Len(a) <= Len(b) /\ a = SubSeq(b, 1, Len(a))

\* the events of one record through k steps
ItemLog(n, k) ==
    <<Event("pull", n, 0)>>
    \o [j \in 1..(2 * k) |->
          IF j % 2 = 1 THEN Event("start", n, (j + 1) \div 2)
          ELSE Event("finish", n, j \div 2)]
    \o <<Event("yield", n, 0)>>

\* the events of n records, one record after the other
RECURSIVE ExpectedLog(_, _)
ExpectedLog(n, k) ==
    IF n = 0 THEN <<>> ELSE ExpectedLog(n - 1, k) \o ItemLog(n, k)

\* sk(...s1(record)...)
RECURSIVE ApplySteps(_, _)
ApplySteps(ss, record) ==
    IF ss = <<>> THEN record
    ELSE ApplySteps(Tail(ss), ApplyOperation(Head(ss), record))

\* C1: AsyncPipeline.run applies the steps to each record in list order, one
\* step ending before the next starts, yields sk(...s1(record)...) before
\* the next record is pulled, and never has two records in the step list.
C1_PipelineOrder ==
    /\ IsPrefix(p_log, ExpectedLog(Len(p_items), Len(steps)))
    /\ Len(p_items) - Len(p_out) \in {0, 1}
    /\ \A n \in DOMAIN p_out : p_out[n] = ApplySteps(steps, p_items[n])

\* two records went through two different steps that changed them
C1_Witness ==
    /\ Len(p_out) = 2
    /\ Len(steps) = 2
    /\ steps[1] # steps[2]
    /\ p_out[1] # p_items[1]
    /\ p_out[2] # p_items[2]
    /\ Len(p_log) = 12

\* a coercion fails on the element
Malformed(e) == \E x \in PresentFields(e) : ~Coerce(x, e.ch[x].s).ok

NotMalformed(e) == ~Malformed(e)

\* the element has a child with text for every field without a default
Complete(e) == \A x \in Range(RequiredFields) : e.ch[x].k = "text"

\* the record holds what the element's children hold
Holds(record, e) ==
    /\ \A x \in PresentFields(e) : record.f[x] = Coerce(x, e.ch[x].s).v
    /\ record.attributes =
         (IF e.attrs.present THEN ReadAttributes(e.attrs.items) ELSE <<>>)

\* C2: of a document of N well-formed <product> elements and one malformed
\* one, stream_products yields exactly the N well-formed records, in
\* document order, and reports one error.
C2_PartialFailure ==
    (/\ pc = "done"
     /\ failures = 0
     /\ Cardinality({i \in DOMAIN doc : Malformed(doc[i])}) = 1
     /\ \A i \in DOMAIN doc : Malformed(doc[i]) \/ Complete(doc[i]))
    => LET good == SelectSeq(doc, NotMalformed) IN
         /\ errors = 1
         /\ Len(out) = Len(good)
         /\ \A i \in DOMAIN good : Holds(out[i], good[i])

\* the attributes of a list but those named name
Others(attrs, name) == SelectSeq(attrs, LAMBDA a : a.name # name)

\* C3: after add_attribute(K, V1) and then add_attribute(K, V2) the list
\* holds exactly one attribute named K, its value is V2, and the attributes
\* of other names are unchanged in value and order.
C3_Upsert ==
    \A i \in 1..(Len(a_calls) - 1) :
        a_calls[i].name = a_calls[i + 1].name
        => LET K == a_calls[i].name
               after == IF i + 1 = Len(a_calls) THEN attributes
                        ELSE a_before[i + 2]
           IN /\ Cardinality({j \in DOMAIN after : after[j].name = K}) = 1
              /\ \A j \in DOMAIN after :
                    after[j].name = K => after[j].value = a_calls[i + 1].value
              /\ Others(after, K) = Others(a_before[i], K)

\* C4: when the stream becomes unreadable after some records were yielded,
\* decoding stops, the failure is reported once and the caller sees a raised
\* error, not a normal end of the sequence.
C4_FatalRaised ==
    (pc = "done" /\ failures > 0 /\ Len(out) > 0)
    => (failures = 1 /\ outcome = "raised")

\* the <attribute> entry has a name child and a value child
HasNameAndValue(entry) == entry.name.k # "absent" /\ entry.value.k # "absent"

\* C5: an <attribute> entry without a name or without a value is not added
\* to the record's attribute list, the entries that have both are added in
\* document order, and the record is still produced.  Stated for a record
\* type that declares every keyword the reader passes.
C5_SkipIncompleteEntry ==
    (/\ c_pc # "read"
     /\ HasImages(c_cls)
     /\ Complete(c_elem)
     /\ ~Malformed(c_elem))
    => /\ c_rec.ok
       /\ c_rec.rec.attributes =
            ReadAttributes(SelectSeq(c_elem.attrs.items, HasNameAndValue))

\* C6: an absent child gives a scalar field an empty or default value and a
\* list field an empty list, and never makes stream_products drop the record
\* or report an error.  Stated for a record type that declares every keyword
\* the reader passes.
C6_AbsentChildDefault ==
    (/\ pc = "done"
     /\ failures = 0
     /\ HasImages(product_cls)
     /\ \A i \in DOMAIN doc : ~Malformed(doc[i]))
    => /\ errors = 0
       /\ Len(out) = Len(doc)
       /\ \A i \in DOMAIN doc :
            /\ \A x \in Range(SimpleFields) :
                  doc[i].ch[x].k = "absent" => out[i].f[x] \in {None, PyStr("")}
            /\ ~doc[i].images.present => out[i].images = <<>>
            /\ ~doc[i].attrs.present => out[i].attributes = <<>>

\* C7: a record stream_products yields, written with save_products and read
\* back with stream_products, comes back as one record equal to it in every
\* field.
C7_RoundTrip ==
    (c_pc = "done" /\ c_rec.ok)
    => /\ c_written.ok
       /\ c_back.ok
       /\ RecordEq(c_rec.rec, c_back.rec)

\* C8: save_products writes the declaration, the root open, one serialized
\* record per input record in input order and the root close; the root open
\* before the first record is pulled, each record before the next is pulled.
C8_WriterFraming ==
    /\ w_in # <<>> => /\ Len(w_file) >= 2
                      /\ w_file[1].kind = "declaration"
                      /\ w_file[2].kind = "root open"
    /\ w_pc = "write" => Len(w_file) = 2 + Len(w_in) - 1
    /\ w_pc = "done" =>
         /\ w_outcome = "returned"
         /\ w_file =
              <<Chunk("declaration", NoElem), Chunk("root open", NoElem)>>
              \o [i \in DOMAIN w_in |->
                    Chunk("product", product_to_element(w_in[i]).elem)]
              \o <<Chunk("root close", NoElem)>>

\* C9: after each <product> end event, the record yielded or dropped, the
\* element is cleared and its previous siblings are removed before the next
\* event is taken; the tree never holds two <product> elements not cleared.
C9_TreeReleased ==
    /\ Cardinality({i \in DOMAIN tree :
                       tree[i].id # 0 /\ ~tree[i].cleared}) <= 1
    /\ pc = "next" =>
         /\ Len(tree) <= 1
         /\ \A i \in DOMAIN tree : tree[i].cleared

\* a record was yielded, the next was dropped after a sibling of another
\* tag, and the tree holds the cleared second element alone
C9_Witness ==
    /\ pc = "next"
    /\ Len(doc) = 2
    /\ Len(out) = 1
    /\ errors = 1
    /\ tree = << [id |-> 2, cleared |-> TRUE] >>

\* C10: get_stats() of an instance maps each manufacturer name to the number
\* of records this instance was applied to with that name, whatever was
\* called on another instance, and each call returns its record unchanged.
C10_PerInstanceStats ==
    /\ m_returned
    /\ \A inst \in Instances : get_stats(inst) = Tally(applied[inst])

====
